---- MODULE Spec2Model ----
(***************************************************************************)
(* A model of leo/plugins/indented_typescript.py: the after_read           *)
(* transaction of class IndentedTypeScript and the passes it runs on each  *)
(* node body (check_brackets, check_indentation, remove_brackets).         *)
(*                                                                         *)
(* Text is a sequence of one-character strings.  Python indices are        *)
(* 0-based; every line number and column number below is 1-based, so a     *)
(* Python (line_number, column_number) is (line - 1, column - 1) here.     *)
(***************************************************************************)
EXTENDS Integers, Sequences, FiniteSets, TLC

\* ------------------------------------------------------------------------
\* Bounds of the model.
\* ------------------------------------------------------------------------
MaxLines == 3
MaxUnits == 2
MaxOtlLines == 4

\* ------------------------------------------------------------------------
\* Characters and Python's str helpers.
\* ------------------------------------------------------------------------
NL == "\n"
OpenCurly == "{"
CloseCurly == "}"

\* str.isspace for the characters of the model: what \s, strip and rstrip see.
IsSpace(ch) == ch \in {" ", "\t", "\n"}

\* s[a:b] of Python for 1-based a..b inclusive, empty when a > b.
Slice(s, a, b) == IF a > b THEN << >> ELSE SubSeq(s, a, b)

\* str.count(ch)
Count(s, ch) == Cardinality({k \in 1..Len(s) : s[k] = ch})

\* str.find(ch), 1-based; 0 when absent (Python: -1).
Find(s, ch) == IF \E k \in 1..Len(s) : s[k] = ch
               THEN CHOOSE k \in 1..Len(s) : s[k] = ch /\ \A j \in 1..(k - 1) : s[j] # ch
               ELSE 0

\* bool(s.strip()): s holds a non-whitespace character.
NonBlank(s) == \E k \in 1..Len(s) : ~IsSpace(s[k])

\* s.rstrip()
rstrip(s) ==
    IF ~NonBlank(s) THEN << >>
    ELSE LET last == CHOOSE k \in 1..Len(s) :
                        /\ ~IsSpace(s[k])
                        /\ \A j \in (k + 1)..Len(s) : IsSpace(s[j])
         IN SubSeq(s, 1, last)

\* g.splitLines(s): split s after every newline, keeping the newlines.
RECURSIVE splitLines(_)
splitLines(s) ==
    IF s = << >> THEN << >>
    ELSE LET n == Find(s, NL)
         IN IF n = 0 THEN << s >>
            ELSE << SubSeq(s, 1, n) >> \o splitLines(Slice(s, n + 1, Len(s)))

\* ''.join(lines)
RECURSIVE joinLines(_)
joinLines(ls) == IF ls = << >> THEN << >> ELSE Head(ls) \o joinLines(Tail(ls))

\* ------------------------------------------------------------------------
\* TS_Importer.make_guide_lines: for every line a guide line of the same
\* length in which the contents of string literals are blanked and every
\* other character keeps its column.
\* ------------------------------------------------------------------------
RECURSIVE GuideChars(_, _)
GuideChars(s, in_string) ==
    IF s = << >> THEN << >>
    ELSE IF Head(s) = "\"" THEN << Head(s) >> \o GuideChars(Tail(s), ~in_string)
    ELSE IF in_string THEN << " " >> \o GuideChars(Tail(s), in_string)
    ELSE << Head(s) >> \o GuideChars(Tail(s), in_string)

make_guide_lines(ls) == [k \in 1..Len(ls) |-> GuideChars(ls[k], FALSE)]

\* ------------------------------------------------------------------------
\* check_brackets
\* ------------------------------------------------------------------------
\* Number of whitespace characters at the start of s (what \s* consumes).
RECURSIVE SpaceRun(_)
SpaceRun(s) == IF s # << >> /\ IsSpace(Head(s)) THEN 1 + SpaceRun(Tail(s)) ELSE 0

\* re.sub(matched_bracket_pat, '', line0) with matched_bracket_pat = {.*?}\s*
\* The leftmost '{' that has a '}' after it (no newline between: '.' does
\* not match a newline) is erased up to the nearest such '}' and the
\* whitespace that follows; the scan resumes after the match.
RECURSIVE SubMatched(_)
SubMatched(s) ==
    LET p == Find(s, OpenCurly)
    IN IF p = 0 THEN s
       ELSE LET rest == Slice(s, p + 1, Len(s))
                q == Find(rest, CloseCurly)
                n == Find(rest, NL)
            IN IF q = 0 \/ (n # 0 /\ n < q)
               THEN SubSeq(s, 1, p) \o SubMatched(rest)
               ELSE LET after == Slice(rest, q + 1, Len(rest))
                        ws == SpaceRun(after)
                    IN Slice(s, 1, p - 1) \o SubMatched(Slice(after, ws + 1, Len(after)))

\* bracket_pat without its anchor at the start of the line: anything may
\* come before the '}'.
bracket_pat_unanchored(s) ==
    \E c \in 1..Len(s) :
       /\ s[c] = CloseCurly
       /\ \E k \in (c + 1)..Len(s) :
            /\ s[k] = OpenCurly
            /\ \A j \in (c + 1)..(k - 1) : s[j] # NL
            /\ \A j \in (k + 1)..Len(s) : IsSpace(s[j])

\* bracket_pat.match(line) with bracket_pat = ^\s*}.*?{\s*$
bracket_pat(s) ==
    LET ws == SpaceRun(s)
    IN /\ ws < Len(s)
       /\ s[ws + 1] = CloseCurly
       /\ \E k \in (ws + 2)..Len(s) :
            /\ s[k] = OpenCurly
            /\ \A j \in (ws + 2)..(k - 1) : s[j] # NL
            /\ \A j \in (k + 1)..Len(s) : IsSpace(s[j])

\* The verdict of check_brackets on one guide line: "none" or the error.
CheckBracketsLine(line0) ==
    LET line == SubMatched(line0)
        n1 == Count(line, OpenCurly)
        n2 == Count(line, CloseCurly)
    IN IF n1 > 1 \/ n2 > 1 THEN "too_many_curly_brackets"
       ELSE IF n1 = 1 /\ n2 = 1 /\ Find(line, OpenCurly) > Find(line, CloseCurly)
                 /\ ~bracket_pat(line)
            THEN "invalid_curly_brackets"
            ELSE "none"

\* check_brackets: the error of the first offending line, or "none".
RECURSIVE CheckBracketsFrom(_, _)
CheckBracketsFrom(gl, k) ==
    IF k > Len(gl) THEN "none"
    ELSE IF CheckBracketsLine(gl[k]) # "none" THEN CheckBracketsLine(gl[k])
    ELSE CheckBracketsFrom(gl, k + 1)

check_brackets(gl) == CheckBracketsFrom(gl, 1)

\* ------------------------------------------------------------------------
\* check_indentation
\* ------------------------------------------------------------------------
\* ws_char: blanks for a negative indent, tabs otherwise.
ws_char(indent) == IF indent < 0 THEN " " ELSE "\t"

Abs(n) == IF n < 0 THEN 0 - n ELSE n

\* len(ws_pat.match(line).group(0)): the leading run of ws_char.
RECURSIVE LeadingRun(_, _)
LeadingRun(s, ch) ==
    IF s # << >> /\ Head(s) = ch THEN 1 + LeadingRun(Tail(s), ch) ELSE 0

\* BadIndentation that only objects to lines indented deeper than their level.
BadIndentationOnlyDeeper(line, indent, curlies) ==
    LET lws == LeadingRun(line, ws_char(indent))
        lws_level == lws \div Abs(indent)
        lws_remainder == lws % Abs(indent)
        curlies2 == curlies - Count(line, CloseCurly)
    IN (curlies2 > 0 /\ lws_level > curlies2) \/ lws_remainder # 0

\* The test of line 181 for one line, given the running counts before it.
BadIndentation(line, indent, curlies) ==
    LET lws == LeadingRun(line, ws_char(indent))
        lws_level == lws \div Abs(indent)
        lws_remainder == lws % Abs(indent)
        curlies2 == curlies - Count(line, CloseCurly)
    IN (curlies2 > 0 /\ lws_level # curlies2) \/ lws_remainder # 0

\* IndentationVerdict that exempts a line only for a positive paren depth
\* with a remainder, and checks the line in every other case.
IndentationVerdictStrict(line, indent, curlies, parens) ==
    LET lws == LeadingRun(line, ws_char(indent))
        lws_remainder == lws % Abs(indent)
    IN IF parens > 0 /\ lws_remainder # 0 THEN "warn"
       ELSE IF NonBlank(line) /\ BadIndentation(line, indent, curlies)
            THEN "raise"
            ELSE "ok"

\* What the body of the main loop does with one line: "warn", "raise" or "ok".
IndentationVerdict(line, indent, curlies, parens) ==
    LET lws == LeadingRun(line, ws_char(indent))
        lws_remainder == lws % Abs(indent)
    IN IF parens # 0 /\ lws_remainder # 0 THEN "warn"
       ELSE IF parens = 0 /\ NonBlank(line) /\ BadIndentation(line, indent, curlies)
            THEN "raise"
            ELSE "ok"

\* The main loop from line k on; the number of the line that raises, or 0.
RECURSIVE CheckIndentationFrom(_, _, _, _, _)
CheckIndentationFrom(gl, indent, k, curlies, parens) ==
    IF k > Len(gl) THEN 0
    ELSE IF IndentationVerdict(gl[k], indent, curlies, parens) = "raise" THEN k
    ELSE CheckIndentationFrom(gl, indent, k + 1,
            curlies + Count(gl[k], OpenCurly) - Count(gl[k], CloseCurly),
            parens + Count(gl[k], "(") - Count(gl[k], ")"))

check_indentation(gl, indent) == CheckIndentationFrom(gl, indent, 1, 0, 0)

\* ------------------------------------------------------------------------
\* remove_brackets, pass 1: the stack and the info dict.
\* ------------------------------------------------------------------------
\* re.finditer(curly_pat, line): the curly brackets of one line, left to
\* right, as tuples <<curly, line_number, column_number>>.
RECURSIVE CurliesOfLine(_, _, _)
CurliesOfLine(line, line_number, k) ==
    IF k > Len(line) THEN << >>
    ELSE IF line[k] \in {OpenCurly, CloseCurly}
         THEN << <<line[k], line_number, k>> >> \o CurliesOfLine(line, line_number, k + 1)
         ELSE CurliesOfLine(line, line_number, k + 1)

\* The two nested loops of passes 1 and 2: every bracket of every line.
RECURSIVE CurliesFrom(_, _)
CurliesFrom(gl, k) ==
    IF k > Len(gl) THEN << >>
    ELSE CurliesOfLine(gl[k], k, 1) \o CurliesFrom(gl, k + 1)

AllCurlies(gl) == CurliesFrom(gl, 1)

EmptyInfo == [t \in {} |-> << >>]

\* Pass1Step pairing a '}' with the bottom of the stack instead of its top.
Pass1StepBottom(st, tok) ==
    IF tok[1] = OpenCurly
    THEN [st EXCEPT !.stack = Append(st.stack, tok), !.level = st.level + 1]
    ELSE IF st.stack # << >>
         THEN LET top == st.stack[1]
              IN [st EXCEPT !.stack = Tail(st.stack),
                            !.info = (tok :> top) @@ (top :> tok) @@ st.info,
                            !.level = st.level - 1]
         ELSE [st EXCEPT !.err = "stack_underflow"]

\* The body of the inner loop of pass 1 for one bracket.
Pass1Step(st, tok) ==
    IF tok[1] = OpenCurly
    THEN [st EXCEPT !.stack = Append(st.stack, tok), !.level = st.level + 1]
    ELSE IF st.stack # << >>
         THEN LET top == st.stack[Len(st.stack)]
              IN [st EXCEPT !.stack = SubSeq(st.stack, 1, Len(st.stack) - 1),
                            !.info = (tok :> top) @@ (top :> tok) @@ st.info,
                            !.level = st.level - 1]
         ELSE [st EXCEPT !.err = "stack_underflow"]

RECURSIVE Pass1Loop(_, _)
Pass1Loop(st, toks) ==
    IF toks = << >> \/ st.err # "none" THEN st
    ELSE Pass1Loop(Pass1Step(st, Head(toks)), Tail(toks))

\* Pass 1 without the test of level after the loops.
Pass1NoLevelTest(gl) ==
    Pass1Loop([stack |-> << >>, info |-> EmptyInfo, level |-> 0, err |-> "none"],
              AllCurlies(gl))

\* Pass 1 including the test of level after the loops.
Pass1(gl) ==
    LET st == Pass1Loop([stack |-> << >>, info |-> EmptyInfo, level |-> 0, err |-> "none"],
                        AllCurlies(gl))
    IN IF st.err = "none" /\ st.level # 0 THEN [st EXCEPT !.err = "unmatched_brackets"]
       ELSE st

\* Pass 2: every bracket must be a key of info.
Pass2(gl, info) ==
    IF \E k \in 1..Len(AllCurlies(gl)) : AllCurlies(gl)[k] \notin DOMAIN info
    THEN "no_matching_info"
    ELSE "none"

\* ------------------------------------------------------------------------
\* remove_brackets, pass 3: the substitutions.
\* ------------------------------------------------------------------------
\* semicolon_pat.search(line) with semicolon_pat = }\s*;
semicolon_pat(s) ==
    \E k \in 1..Len(s) :
        /\ s[k] = CloseCurly
        /\ LET after == Slice(s, k + 1, Len(s))
               ws == SpaceRun(after)
           IN ws < Len(after) /\ after[ws + 1] = ";"

\* Substitute without the rstrip: the rewritten line keeps its trailing blanks.
SubstituteNoTrim(s, column) ==
    LET new_line == Slice(s, 1, column - 1) \o << " " >> \o Slice(s, column + 1, Len(s))
    IN IF NonBlank(new_line) THEN new_line ELSE << NL >>

\* s[:column] + ' ' + s[column + 1:], then
\* new_line.rstrip() + '\n' if new_line.strip() else '\n'
Substitute(s, column) ==
    LET new_line == Slice(s, 1, column - 1) \o << " " >> \o Slice(s, column + 1, Len(s))
    IN IF NonBlank(new_line) THEN rstrip(new_line) \o << NL >> ELSE << NL >>

\* The columns of the '}' of one line: re.finditer(close_curly_pat, line).
RECURSIVE CloseColumns(_, _)
CloseColumns(line, k) ==
    IF k > Len(line) THEN << >>
    ELSE IF line[k] = CloseCurly THEN << k >> \o CloseColumns(line, k + 1)
    ELSE CloseColumns(line, k + 1)

\* The loop over the '}' of line line_number (lines 278-306).
RECURSIVE Pass3Closes(_, _, _, _, _)
Pass3Closes(result_lines, ls, info, line_number, columns) ==
    IF columns = << >> THEN result_lines
    ELSE LET column_number == Head(columns)
             match == info[<<CloseCurly, line_number, column_number>>]
             match_line == match[2]
             match_column == match[3]
         IN IF match_line = line_number
            THEN Append(result_lines, ls[line_number])
            ELSE Pass3Closes(
                    Append([result_lines EXCEPT
                               ![match_line] = Substitute(ls[match_line], match_column)],
                           Substitute(ls[line_number], column_number)),
                    ls, info, line_number, Tail(columns))

\* The body of the loop of pass 3 for one line.
Pass3Line(result_lines, gl, ls, info, line_number) ==
    LET line == gl[line_number]
    IN IF Count(line, CloseCurly) = 0 THEN Append(result_lines, line)
       ELSE IF semicolon_pat(line) THEN Append(result_lines, ls[line_number])
       ELSE Pass3Closes(result_lines, ls, info, line_number, CloseColumns(line, 1))

RECURSIVE Pass3From(_, _, _, _, _)
Pass3From(result_lines, gl, ls, info, line_number) ==
    IF line_number > Len(gl) THEN result_lines
    ELSE Pass3From(Pass3Line(result_lines, gl, ls, info, line_number),
                   gl, ls, info, line_number + 1)

Pass3(gl, ls, info) == Pass3From(<< >>, gl, ls, info, 1)

\* ------------------------------------------------------------------------
\* The inputs: lines of node bodies, node bodies, @tabwidth values.
\* ------------------------------------------------------------------------
\* 'if cond {\n'
LineIfCond == <<"i", "f", " ", "c", "o", "n", "d", " ", "{", "\n">>
\* '    doThing()\n'
LineDoThing == <<" ", " ", " ", " ", "d", "o", "T", "h", "i", "n", "g", "(", ")", "\n">>
\* '}\n'
LineClose == <<"}", "\n">>
\* '} { }\n'
LineCloseOpenClose == <<"}", " ", "{", " ", "}", "\n">>
\* 'x = { y };\n'
LineSameLine == <<"x", " ", "=", " ", "{", " ", "y", " ", "}", ";", "\n">>
\* '}; f {\n'
LineCloseSemiOpen == <<"}", ";", " ", "f", " ", "{", "\n">>
\* '    b {\n'
LineNestedOpen == <<" ", " ", " ", " ", "b", " ", "{", "\n">>
\* '    }\n'
LineNestedClose == <<" ", " ", " ", " ", "}", "\n">>
\* '    "a{"\n'
LineString == <<" ", " ", " ", " ", "\"", "a", "{", "\"", "\n">>
\* '    g({\n'
LineParenOpen == <<" ", " ", " ", " ", "g", "(", "{", "\n">>
\* '\n'
LineBlank == <<"\n">>
\* '} else {\n'
LineElse == <<"}", " ", "e", "l", "s", "e", " ", "{", "\n">>
\* '} }\n'
LineTwoCloses == <<"}", " ", "}", "\n">>
\* 'a } {\n'
LineTextCloseOpen == <<"a", " ", "}", " ", "{", "\n">>
\* 'a) {\n'
LineParenClose == <<"a", ")", " ", "{", "\n">>
\* '  x\n'
LineHalfIndent == <<" ", " ", "x", "\n">>

LinePool ==
    << LineIfCond, LineDoThing, LineClose, LineCloseOpenClose, LineSameLine,
       LineCloseSemiOpen, LineNestedOpen, LineNestedClose, LineString,
       LineParenOpen, LineBlank, LineElse, LineTwoCloses, LineTextCloseOpen,
       LineParenClose, LineHalfIndent >>

\* Every body of at most MaxLines lines of the pool.
UnitBodies ==
    {joinLines([k \in DOMAIN f |-> LinePool[f[k]]]) :
        f \in UNION {[1..n -> 1..Len(LinePool)] : n \in 0..MaxLines}}

\* The bodies of the nodes of a batch: one the transform changes, an empty
\* one, one with a stray '}', one with a same-line pair, one with an
\* unclosed '{', one with a badly indented line, one of whitespace only and
\* one that has a line off the unit of width 4 and a line with two '}'.
BodyPool ==
    { LineIfCond \o LineDoThing \o LineClose,
      << >>,
      LineClose,
      LineSameLine,
      LineIfCond,
      LineIfCond \o LineNestedOpen \o LineDoThing,
      LineBlank,
      LineHalfIndent \o LineTwoCloses }

\* The values of g.scanAllAtTabWidthDirectives: 0 stands for None.
TabWidths == {0, -4, -2}

\* p.self_and_subtree() for a root with gnx 1: the vnodes 1..n in outline
\* order, the last one possibly met a second time (a clone).
Traversals ==
    {[k \in 1..n |-> k] : n \in 1..MaxUnits}
    \cup {[k \in 1..(n + 1) |-> IF k <= n THEN k ELSE n] : n \in 2..MaxUnits}

\* What the importer's make_guide_lines returns: guide lines that keep the
\* contract, guide lines with the last line missing, or guide lines whose
\* first line lacks its last character.
Importers == {"ok", "drops_line", "shortens_line"}

GuideLines(mode, ls) ==
    LET gl == make_guide_lines(ls)
    IN IF mode = "drops_line" THEN Slice(gl, 1, Len(gl) - 1)
       ELSE IF mode = "shortens_line" /\ gl # << >>
            THEN [gl EXCEPT ![1] = Slice(gl[1], 1, Len(gl[1]) - 1)]
            ELSE gl

\* ------------------------------------------------------------------------
\* Otl_Importer.gen_lines: the patterns and the inputs.
\* ------------------------------------------------------------------------
\* What '(.*)$' takes of s: s without its final newline.  No match when a
\* newline stands before the end ('.' does not match a newline).
NoEOL(s) == IF s # << >> /\ s[Len(s)] = NL THEN SubSeq(s, 1, Len(s) - 1) ELSE s

\* otl_body_pattern = ^: (.*)$ : whether it matches, and group 1.
otl_body_pattern(line) ==
    LET rest == NoEOL(Slice(line, 3, Len(line)))
    IN [match |-> /\ Len(line) >= 2
                  /\ line[1] = ":"
                  /\ line[2] = " "
                  /\ \A k \in 1..Len(rest) : rest[k] # NL,
        group1 |-> rest]

\* otl_node_pattern without its '[ ]*': the tabs are counted from column
\* 0 and group 2 is all that follows them.
otl_node_pattern_no_blanks(line) ==
    LET tabs == LeadingRun(line, "\t")
        rest == NoEOL(Slice(line, tabs + 1, Len(line)))
    IN [match |-> \A k \in 1..Len(rest) : rest[k] # NL,
        group1 |-> tabs,
        group2 |-> rest]

\* otl_node_pattern = ^[ ]*(\t*)(.*)$ : whether it matches, the length of
\* group 1 and group 2.
otl_node_pattern(line) ==
    LET blanks == LeadingRun(line, " ")
        tabs == LeadingRun(Slice(line, blanks + 1, Len(line)), "\t")
        rest == NoEOL(Slice(line, blanks + tabs + 1, Len(line)))
    IN [match |-> \A k \in 1..Len(rest) : rest[k] # NL,
        group1 |-> tabs,
        group2 |-> rest]

\* Line 45: level = 1 + len(m.group(1)).
NodeLevel(n) == 1 + n

\* Line 46: parents[:level].
CutBack(ps, lvl) == Slice(ps, 1, IF lvl < Len(ps) THEN lvl ELSE Len(ps))

\* str(n) for the numbers of the model.
Digits == << "0", "1", "2", "3", "4", "5", "6", "7", "8", "9" >>

RECURSIVE NatStr(_)
NatStr(n) == IF n < 10 THEN << Digits[n + 1] >> ELSE NatStr(n \div 10) \o << Digits[(n % 10) + 1] >>

Str(n) == IF n < 0 THEN << "-" >> \o NatStr(0 - n) ELSE NatStr(n)

\* '@language otl\n'
LanguageDirective == << "@", "l", "a", "n", "g", "u", "a", "g", "e", " ", "o", "t", "l", "\n" >>

\* f"@tabwidth {self.tab_width}\n"
TabwidthDirective(w) == << "@", "t", "a", "b", "w", "i", "d", "t", "h", " " >> \o Str(w) \o << NL >>

\* f"placeholder level {len(parents)}"
PlaceholderHeadline(n) ==
    << "p", "l", "a", "c", "e", "h", "o", "l", "d", "e", "r", " ", "l", "e", "v", "e", "l", " " >>
    \o Str(n)

\* The lines of an otl file: '\n', ': a\n', ': b\n', 'x\n', '\ty\n',
\* ' \tw\n' and ':c\n'.
OtlLinePool ==
    << << "\n" >>,
       << ":", " ", "a", "\n" >>,
       << ":", " ", "b", "\n" >>,
       << "x", "\n" >>,
       << "\t", "y", "\n" >>,
       << " ", "\t", "w", "\n" >>,
       << ":", "c", "\n" >> >>

\* Every file of at most MaxOtlLines lines of the pool.
OtlInputs ==
    {[k \in DOMAIN f |-> OtlLinePool[f[k]]] :
        f \in UNION {[1..n -> 1..Len(OtlLinePool)] : n \in 0..MaxOtlLines}}

OtlTabWidths == {-4, 8}

\* ------------------------------------------------------------------------
\* The state.
\* ------------------------------------------------------------------------
VARIABLES
    order,          \* the positions p.self_and_subtree() yields, as vnodes
    importer,       \* how self.importer.make_guide_lines behaves
    calls,          \* how often do_remove_brackets was called, per vnode
    b,              \* v.b for every vnode of the outline
    b0,             \* v.b when after_read was called
    tab_width,      \* what g.scanAllAtTabWidthDirectives(c, p) returns
    indent,         \* after_read's indent
    backup_d,       \* after_read's backup_d
    seen,           \* after_read's seen
    i,              \* position of the second loop of after_read in order
    p2,             \* the node do_remove_brackets works on
    pc,             \* the statement after_read is at
    lines,          \* do_remove_brackets: lines
    guide_lines,    \* do_remove_brackets: guide_lines
    stack,          \* remove_brackets: stack after pass 1
    info,           \* remove_brackets: info after pass 1
    level,          \* remove_brackets: level after pass 1
    result_lines,   \* remove_brackets: result_lines, per vnode
    err,            \* the exception raised, "none" if none
    err_line,       \* the line check_indentation raised for, else 0
    otl_lines,      \* gen_lines: lines
    otl_tab_width,  \* gen_lines: self.tab_width
    otl_i,          \* gen_lines: position of the loop in lines
    parents,        \* gen_lines: parents, as node numbers (the root is 0)
    lines_dict,     \* gen_lines: lines_dict, per node
    otl_h,          \* p.h for every node of the outline
    otl_children,   \* the children of every node, in outline order
    otl_b,          \* p.b for every node of the outline
    otl_pc          \* the statement gen_lines is at

its_vars == << order, importer, calls, b, b0, tab_width, indent, backup_d, seen, i, p2, pc, lines,
               guide_lines, stack, info, level, result_lines, err, err_line >>

otl_vars == << otl_lines, otl_tab_width, otl_i, parents, lines_dict, otl_h, otl_children,
               otl_b, otl_pc >>

vars == << its_vars, otl_vars >>

Range(f) == {f[k] : k \in DOMAIN f}

\* gen_lines is not running.
OtlIdle ==
    /\ otl_lines = << >>
    /\ otl_tab_width = 0
    /\ otl_i = 0
    /\ parents = << >>
    /\ lines_dict = << >>
    /\ otl_h = << >>
    /\ otl_children = << >>
    /\ otl_b = << >>
    /\ otl_pc = "idle"

InitLocals ==
    /\ b0 = b
    /\ calls = [v \in DOMAIN b |-> 0]
    /\ indent = 0
    /\ backup_d = [v \in {} |-> << >>]
    /\ seen = {}
    /\ i = 1
    /\ p2 = 0
    /\ pc = "start"
    /\ lines = << >>
    /\ guide_lines = << >>
    /\ stack = << >>
    /\ info = EmptyInfo
    /\ level = 0
    /\ result_lines = [v \in DOMAIN b |-> << >>]
    /\ err = "none"
    /\ err_line = 0

\* A batch of up to MaxUnits nodes with bodies of BodyPool.
Init ==
    /\ order \in Traversals
    /\ b \in [1..MaxUnits -> BodyPool]
    /\ tab_width \in TabWidths
    /\ importer = "ok"
    /\ InitLocals
    /\ OtlIdle

\* The batches of Init with an importer of any behaviour.
InitGuide ==
    /\ order \in Traversals
    /\ b \in [1..MaxUnits -> BodyPool]
    /\ tab_width \in TabWidths
    /\ importer \in Importers
    /\ InitLocals
    /\ OtlIdle

\* A batch of one node with any body of UnitBodies.
InitUnit ==
    /\ order = << 1 >>
    /\ b \in [{1} -> UnitBodies]
    /\ tab_width \in TabWidths
    /\ importer = "ok"
    /\ InitLocals
    /\ OtlIdle

\* ------------------------------------------------------------------------
\* after_read
\* ------------------------------------------------------------------------
\* Lines 68-74: indent and the backup of the bodies.  The test of line 73
\* looks a gnx up among vnode keys, so it never skips a position.
BackupValue(v) == b[order[1]]

\* Indent without the default: a width of 0 is taken as it is.
IndentNoDefault(width) == width

\* Line 68: g.scanAllAtTabWidthDirectives(c, p) or -4.
Indent(width) == IF width # 0 THEN width ELSE -4

Backup ==
    /\ pc = "start"
    /\ indent' = Indent(tab_width)
    /\ backup_d' = [v \in Range(order) |-> BackupValue(v)]
    /\ seen' = {}
    /\ i' = 1
    /\ pc' = "loop"
    /\ UNCHANGED << order, importer, calls, b, b0, tab_width, p2, lines, guide_lines, stack, info,
                    level, result_lines, err, err_line >>
    /\ UNCHANGED otl_vars


\* InSeen that finds no gnx: a lookup that never matches.
NeverInSeen(gnx, seen_d) == FALSE

\* Line 80: p2.gnx is a key of seen.
InSeen(gnx, seen_d) == gnx \in seen_d

\* Lines 79-82: one iteration of the second loop, up to the call.
NextUnit ==
    /\ pc = "loop"
    /\ i <= Len(order)
    /\ IF InSeen(order[i], seen)
       THEN /\ i' = i + 1
            /\ UNCHANGED << seen, p2, pc, calls >>
       ELSE /\ seen' = seen \cup {order[i]}
            /\ p2' = order[i]
            /\ calls' = [calls EXCEPT ![order[i]] = @ + 1]
            /\ pc' = "do_remove_brackets"
            /\ UNCHANGED i
    /\ UNCHANGED << order, importer, b, b0, tab_width, indent, backup_d, lines, guide_lines,
                    stack, info, level, result_lines, err, err_line >>
    /\ UNCHANGED otl_vars


\* The loop is over and nothing was raised: after_read returns.
Return ==
    /\ pc = "loop"
    /\ i > Len(order)
    /\ pc' = "done"
    /\ UNCHANGED << order, importer, calls, b, b0, tab_width, indent, backup_d, seen, i, p2, lines,
                    guide_lines, stack, info, level, result_lines, err, err_line >>
    /\ UNCHANGED otl_vars


\* Lines 83-88: the handler of any exception.
Except ==
    /\ pc = "except"
    /\ b' = [v \in DOMAIN b |-> IF v \in DOMAIN backup_d THEN backup_d[v] ELSE b[v]]
    /\ pc' = "done"
    /\ UNCHANGED << order, importer, calls, b0, tab_width, indent, backup_d, seen, i, p2, lines,
                    guide_lines, stack, info, level, result_lines, err, err_line >>
    /\ UNCHANGED otl_vars


\* ------------------------------------------------------------------------
\* do_remove_brackets
\* ------------------------------------------------------------------------
\* Empty that takes only the empty string for empty.
EmptyOnlyWithoutText(contents) == contents = << >>

\* Line 106: not contents.strip().
Empty(contents) == ~NonBlank(contents)

\* Lines 105-111: the empty test, the lines, the guide lines, the assert.
DoRemoveBrackets ==
    /\ pc = "do_remove_brackets"
    /\ IF Empty(b[p2])
       THEN /\ pc' = "loop"
            /\ i' = i + 1
            /\ UNCHANGED << lines, guide_lines, err >>
       ELSE /\ lines' = splitLines(b[p2])
            /\ guide_lines' = GuideLines(importer, lines')
            /\ IF lines' # << >> /\ Len(lines') = Len(guide_lines')
               THEN pc' = "check_brackets" /\ UNCHANGED err
               ELSE pc' = "except" /\ err' = "assertion"
            /\ UNCHANGED i
    /\ UNCHANGED << order, importer, calls, b, b0, tab_width, indent, backup_d, seen, p2, stack,
                    info, level, result_lines, err_line >>
    /\ UNCHANGED otl_vars


\* Line 114.
CheckBrackets ==
    /\ pc = "check_brackets"
    /\ IF check_brackets(guide_lines) = "none"
       THEN pc' = "check_indentation" /\ UNCHANGED err
       ELSE pc' = "except" /\ err' = check_brackets(guide_lines)
    /\ UNCHANGED << order, importer, calls, b, b0, tab_width, indent, backup_d, seen, i, p2, lines,
                    guide_lines, stack, info, level, result_lines, err_line >>
    /\ UNCHANGED otl_vars


\* Lines 156-157: indent_n, the length of indent_s.
indent_n(n) == Abs(n)

\* Line 115: the assertion of line 158, then the main loop.
CheckIndentation ==
    /\ pc = "check_indentation"
    /\ IF ~(indent_n(indent) > 0)
       THEN pc' = "except" /\ err' = "assertion" /\ UNCHANGED err_line
       ELSE IF check_indentation(guide_lines, indent) = 0
       THEN pc' = "pass1" /\ UNCHANGED << err, err_line >>
       ELSE /\ pc' = "except"
            /\ err' = "bad_indentation"
            /\ err_line' = check_indentation(guide_lines, indent)
    /\ UNCHANGED << order, importer, calls, b, b0, tab_width, indent, backup_d, seen, i, p2, lines,
                    guide_lines, stack, info, level, result_lines >>
    /\ UNCHANGED otl_vars


\* Line 116, remove_brackets lines 224-249: pass 1.
MatchBrackets ==
    /\ pc = "pass1"
    /\ LET st == Pass1(guide_lines)
       IN /\ stack' = st.stack
          /\ info' = st.info
          /\ level' = st.level
          /\ IF st.err = "none"
             THEN pc' = "pass2" /\ UNCHANGED err
             ELSE pc' = "except" /\ err' = st.err
    /\ UNCHANGED << order, importer, calls, b, b0, tab_width, indent, backup_d, seen, i, p2, lines,
                    guide_lines, result_lines, err_line >>
    /\ UNCHANGED otl_vars


\* remove_brackets lines 252-261: pass 2.
CheckInfo ==
    /\ pc = "pass2"
    /\ IF Pass2(guide_lines, info) = "none"
       THEN pc' = "pass3" /\ UNCHANGED err
       ELSE pc' = "except" /\ err' = Pass2(guide_lines, info)
    /\ UNCHANGED << order, importer, calls, b, b0, tab_width, indent, backup_d, seen, i, p2, lines,
                    guide_lines, stack, info, level, result_lines, err_line >>
    /\ UNCHANGED otl_vars


\* remove_brackets lines 264-310: pass 3.  The result is traced and dropped:
\* nothing assigns p.b, and do_remove_brackets returns to the loop.
Substitutions ==
    /\ pc = "pass3"
    /\ result_lines' = [result_lines EXCEPT ![p2] = Pass3(guide_lines, lines, info)]
    /\ pc' = "loop"
    /\ i' = i + 1
    /\ UNCHANGED << order, importer, calls, b, b0, tab_width, indent, backup_d, seen, p2, lines,
                    guide_lines, stack, info, level, err, err_line >>
    /\ UNCHANGED otl_vars

Next ==
    \/ Backup
    \/ NextUnit
    \/ Return
    \/ Except
    \/ DoRemoveBrackets
    \/ CheckBrackets
    \/ CheckIndentation
    \/ MatchBrackets
    \/ CheckInfo
    \/ Substitutions

Spec == Init /\ [][Next]_vars

SpecUnit == InitUnit /\ [][Next]_vars

SpecGuide == InitGuide /\ [][Next]_vars

\* ------------------------------------------------------------------------
\* Otl_Importer.gen_lines
\* ------------------------------------------------------------------------
\* Lines 30-33: gen_lines is called with the lines of a file and the root,
\* a node without body and without children.
InitOtl ==
    /\ order = << 1 >>
    /\ b = [v \in {1} |-> << >>]
    /\ tab_width = -4
    /\ importer = "ok"
    /\ InitLocals
    /\ otl_lines \in OtlInputs
    /\ otl_tab_width \in OtlTabWidths
    /\ otl_i = 1
    /\ parents = << 0 >>
    /\ lines_dict = (0 :> << >>)
    /\ otl_h = (0 :> << >>)
    /\ otl_children = (0 :> << >>)
    /\ otl_b = (0 :> << >>)
    /\ otl_pc = "scan"

\* The number the next node gets: nodes are numbered as they are created.
NewNode(h) == Cardinality(DOMAIN h)

\* parent.insertAsLastChild(): child becomes the last child of parent.
insertAsLastChild(children, parent, child) ==
    [children EXCEPT ![parent] = Append(@, child)] @@ (child :> << >>)

\* Importer.create_placeholders(level, lines_dict, parents): while the stack
\* is shorter than level, a placeholder node becomes the last child of the
\* stack top and is pushed.
RECURSIVE create_placeholders(_, _)
create_placeholders(lvl, st) ==
    IF lvl <= Len(st.parents) THEN st
    ELSE LET child == NewNode(st.h)
             parent == st.parents[Len(st.parents)]
         IN create_placeholders(lvl,
                [parents |-> Append(st.parents, child),
                 lines_dict |-> st.lines_dict @@ (child :> << >>),
                 h |-> st.h @@ (child :> PlaceholderHeadline(Len(st.parents))),
                 children |-> insertAsLastChild(st.children, parent, child)])

\* Lines 35-36: a blank line.
OtlBlankLine ==
    /\ otl_pc = "scan"
    /\ otl_i <= Len(otl_lines)
    /\ ~NonBlank(otl_lines[otl_i])
    /\ otl_i' = otl_i + 1
    /\ UNCHANGED << otl_lines, otl_tab_width, parents, lines_dict, otl_h, otl_children,
                    otl_b, otl_pc >>
    /\ UNCHANGED its_vars

\* Lines 37-41: a body line.
OtlBodyLine ==
    /\ otl_pc = "scan"
    /\ otl_i <= Len(otl_lines)
    /\ NonBlank(otl_lines[otl_i])
    /\ otl_body_pattern(otl_lines[otl_i]).match
    /\ lines_dict' = [lines_dict EXCEPT ![parents[Len(parents)]] =
                         Append(@, otl_body_pattern(otl_lines[otl_i]).group1 \o << NL >>)]
    /\ otl_i' = otl_i + 1
    /\ UNCHANGED << otl_lines, otl_tab_width, parents, otl_h, otl_children, otl_b, otl_pc >>
    /\ UNCHANGED its_vars

\* Lines 42-52: a node line.  The node pattern matches every line, so the
\* else of line 53 is never taken.
OtlNodeLine ==
    /\ otl_pc = "scan"
    /\ otl_i <= Len(otl_lines)
    /\ NonBlank(otl_lines[otl_i])
    /\ ~otl_body_pattern(otl_lines[otl_i]).match
    /\ otl_node_pattern(otl_lines[otl_i]).match
    /\ LET m == otl_node_pattern(otl_lines[otl_i])
           lvl == NodeLevel(m.group1)
           st == create_placeholders(lvl,
                    [parents |-> CutBack(parents, lvl), lines_dict |-> lines_dict,
                     h |-> otl_h, children |-> otl_children])
           parent == IF st.parents # << >> THEN st.parents[Len(st.parents)] ELSE 0
           child == NewNode(st.h)
       IN /\ otl_children' = insertAsLastChild(st.children, parent, child)
          /\ otl_h' = st.h @@ (child :> m.group2)
          /\ parents' = Append(st.parents, child)
          /\ lines_dict' = st.lines_dict @@ (child :> << >>)
          /\ otl_b' = [n \in DOMAIN otl_h' |-> << >>]
    /\ otl_i' = otl_i + 1
    /\ UNCHANGED << otl_lines, otl_tab_width, otl_pc >>
    /\ UNCHANGED its_vars

\* Lines 56-66: the directives of the root, then p.b of every node.
OtlFinish ==
    /\ otl_pc = "scan"
    /\ otl_i > Len(otl_lines)
    /\ LET root_lines == lines_dict[0]
           closed == IF root_lines # << >>
                        /\ LET last == root_lines[Len(root_lines)]
                           IN ~(last # << >> /\ last[Len(last)] = NL)
                     THEN Append(root_lines, << NL >>)
                     ELSE root_lines
       IN lines_dict' = [lines_dict EXCEPT ![0] =
                            closed \o << LanguageDirective, TabwidthDirective(otl_tab_width) >>]
    /\ otl_b' = [n \in DOMAIN otl_h |-> joinLines(lines_dict'[n])]
    /\ otl_pc' = "done"
    /\ UNCHANGED << otl_lines, otl_tab_width, otl_i, parents, otl_h, otl_children >>
    /\ UNCHANGED its_vars

NextOtl ==
    \/ OtlBlankLine
    \/ OtlBodyLine
    \/ OtlNodeLine
    \/ OtlFinish

SpecOtl == InitOtl /\ [][NextOtl]_vars

\* ------------------------------------------------------------------------
\* Vocabulary of the properties.
\* ------------------------------------------------------------------------
\* remove_brackets has built result_lines for node 1 (SpecUnit has no other).
Removed == result_lines[1] # << >>

\* after_read has returned.
Returned == pc = "done"

\* The brackets of the guide lines, as a set.
Tokens == Range(AllCurlies(guide_lines))

\* t stands before u in (line, column) order.
Before(t, u) == t[2] < u[2] \/ (t[2] = u[2] /\ t[3] < u[3])

\* s with the character at column col replaced by a blank.
BlankAt(s, col) == [k \in 1..Len(s) |-> IF k = col THEN " " ELSE s[k]]

\* r is t without its trailing whitespace, closed by a newline: the
\* characters r keeps stand in the column they have in t.
TrimmedOf(r, t) ==
    /\ Len(r) >= 1
    /\ r[Len(r)] = NL
    /\ Len(r) > 1 => ~IsSpace(r[Len(r) - 1])
    /\ Len(r) - 1 <= Len(t)
    /\ \A k \in 1..(Len(r) - 1) : r[k] = t[k]
    /\ \A k \in Len(r)..Len(t) : IsSpace(t[k])

\* The running counts check_indentation holds when it reaches line k.
RECURSIVE CurliesBefore(_)
CurliesBefore(k) ==
    IF k <= 1 THEN 0
    ELSE CurliesBefore(k - 1) + Count(guide_lines[k - 1], OpenCurly)
                              - Count(guide_lines[k - 1], CloseCurly)

RECURSIVE ParensBefore(_)
ParensBefore(k) ==
    IF k <= 1 THEN 0
    ELSE ParensBefore(k - 1) + Count(guide_lines[k - 1], "(")
                             - Count(guide_lines[k - 1], ")")

\* The guide text of a body: its delimiters are the ones outside literals.
GuideText(body) == joinLines(make_guide_lines(splitLines(body)))

\* ------------------------------------------------------------------------
\* C1
\* ------------------------------------------------------------------------
\* C1: atomicity of after_read.  If do_remove_brackets raised for a node of
\* the batch, then when after_read has returned every node of the batch has
\* the body it had when after_read was called.
C1_Atomicity ==
    (Returned /\ err # "none") => \A v \in Range(order) : b[v] = b0[v]

\* ------------------------------------------------------------------------
\* C2
\* ------------------------------------------------------------------------
\* C2: commit on success.  When after_read has returned and nothing was
\* raised, the body of every non-blank node of the batch is the line
\* sequence pass 3 of remove_brackets built for it.
C2_CommitOnSuccess ==
    (Returned /\ err = "none") =>
        \A v \in Range(order) : NonBlank(b0[v]) => splitLines(b[v]) = result_lines[v]

\* ------------------------------------------------------------------------
\* C3
\* ------------------------------------------------------------------------
\* The node's only brackets are a '{' that ends its line and its '}' on a
\* later line with no ';' after it.
OnlyCrossLinePair ==
    LET toks == AllCurlies(guide_lines)
    IN /\ Len(toks) = 2
       /\ toks[1][1] = OpenCurly
       /\ toks[2][1] = CloseCurly
       /\ toks[1][2] < toks[2][2]
       /\ \A k \in (toks[1][3] + 1)..Len(guide_lines[toks[1][2]]) :
              IsSpace(guide_lines[toks[1][2]][k])
       /\ ~semicolon_pat(guide_lines[toks[2][2]])

IsExample == b0[1] = LineIfCond \o LineDoThing \o LineClose /\ indent = -4

\* A rewritten line as the claim has it: the delimiter blanked, nothing else
\* touched, a line of whitespace cut down to its newline.
BlankedLine(s, col) == IF NonBlank(BlankAt(s, col)) THEN BlankAt(s, col) ELSE << NL >>

\* C3 as stated: each of the two delimiters becomes a blank in its column,
\* every other character stays (the blank before the '{' too), an
\* all-whitespace line becomes a newline; the example gives
\* "if cond \n", "    doThing()\n", "\n".
C3_BlankInPlace ==
    (Removed /\ OnlyCrossLinePair) =>
        LET toks == AllCurlies(guide_lines)
        IN /\ Len(result_lines[1]) = Len(lines)
           /\ result_lines[1][toks[1][2]] = BlankedLine(lines[toks[1][2]], toks[1][3])
           /\ result_lines[1][toks[2][2]] = BlankedLine(lines[toks[2][2]], toks[2][3])
           /\ IsExample =>
                result_lines[1] = << <<"i", "f", " ", "c", "o", "n", "d", " ", "\n">>,
                                     LineDoThing, << "\n" >> >>

\* C3, amended: each of the two delimiters becomes a blank in its column and
\* the rewritten line then loses its trailing whitespace (so the blank
\* before a '{' that ended the line goes too); every character that is left
\* on the two lines keeps its column, and an all-whitespace line becomes a
\* newline; the example gives "if cond\n", "    doThing()\n", "\n".
C3_BlankAndTrim ==
    (Removed /\ OnlyCrossLinePair) =>
        LET toks == AllCurlies(guide_lines)
        IN /\ Len(result_lines[1]) = Len(lines)
           /\ TrimmedOf(result_lines[1][toks[1][2]], BlankAt(lines[toks[1][2]], toks[1][3]))
           /\ TrimmedOf(result_lines[1][toks[2][2]], BlankAt(lines[toks[2][2]], toks[2][3]))
           /\ IsExample =>
                result_lines[1] = << <<"i", "f", " ", "c", "o", "n", "d", "\n">>,
                                     LineDoThing, << "\n" >> >>

C3_Witness == Removed /\ OnlyCrossLinePair /\ IsExample

\* ------------------------------------------------------------------------
\* C4
\* ------------------------------------------------------------------------
\* C4: the result of remove_brackets has as many lines as the input.
C4_LineCount == Removed => Len(result_lines[1]) = Len(lines)

\* ------------------------------------------------------------------------
\* C5
\* ------------------------------------------------------------------------
\* The characters that are neither whitespace nor curly brackets.
ContentChars(s) == {s[k] : k \in 1..Len(s)} \ {" ", "\t", "\n", OpenCurly, CloseCurly}

\* C5: the result holds the same multiset of non-whitespace, non-delimiter
\* characters as the real lines, and a line without any bracket in its
\* guide line is the real line.
C5_ContentPreserved ==
    Removed =>
        /\ \A ch \in ContentChars(joinLines(lines)) \cup ContentChars(joinLines(result_lines[1])) :
              Count(joinLines(result_lines[1]), ch) = Count(joinLines(lines), ch)
        /\ \A k \in 1..Len(lines) :
              (Count(guide_lines[k], OpenCurly) + Count(guide_lines[k], CloseCurly) = 0)
                  => (k <= Len(result_lines[1]) /\ result_lines[1][k] = lines[k])

\* ------------------------------------------------------------------------
\* C6
\* ------------------------------------------------------------------------
\* C6: a line with a '}' followed by ';' is in the result as it is in the
\* real lines.
C6_TerminatorGuard ==
    Removed =>
        \A k \in 1..Len(lines) :
            semicolon_pat(guide_lines[k]) =>
                (k <= Len(result_lines[1]) /\ result_lines[1][k] = lines[k])

\* ------------------------------------------------------------------------
\* C7
\* ------------------------------------------------------------------------
\* C7: both brackets of a pair that stands on one line are in the result at
\* their line and columns; "x = { y };\n" comes out unchanged.
C7_SameLinePairsKept ==
    Removed =>
        /\ \A t \in DOMAIN info :
              (t[1] = OpenCurly /\ info[t][2] = t[2]) =>
                  /\ t[2] <= Len(result_lines[1])
                  /\ info[t][3] <= Len(result_lines[1][t[2]])
                  /\ result_lines[1][t[2]][t[3]] = OpenCurly
                  /\ result_lines[1][t[2]][info[t][3]] = CloseCurly
        /\ b0[1] = LineSameLine => result_lines[1] = << LineSameLine >>

\* ------------------------------------------------------------------------
\* C8
\* ------------------------------------------------------------------------
\* Pass 1 has completed without raising.
Matched == pc \in {"pass2", "pass3"}

\* C8: when pass 1 completes without raising, the stack is empty and info
\* pairs every bracket with exactly one bracket of the other kind: info is
\* its own inverse, an open stands before its close, and pairs are nested.
C8_Balance ==
    Matched =>
        /\ stack = << >>
        /\ DOMAIN info = Tokens
        /\ \A t \in Tokens :
              /\ info[t] \in Tokens
              /\ info[info[t]] = t
              /\ info[t][1] # t[1]
              /\ t[1] = OpenCurly => Before(t, info[t])
        /\ \A t, u \in Tokens :
              (t[1] = OpenCurly /\ u[1] = OpenCurly /\ Before(t, u) /\ Before(u, info[t]))
                  => Before(info[u], info[t])

\* A pair inside another pair has been matched.
C8_Witness ==
    /\ Matched
    /\ \E t, u \in Tokens :
          /\ t[1] = OpenCurly /\ u[1] = OpenCurly
          /\ Before(t, u) /\ Before(info[u], info[t])

\* ------------------------------------------------------------------------
\* C9
\* ------------------------------------------------------------------------
\* C9: a node with exactly one more '{' than '}' that after_read has
\* processed made the transform fail with the matcher's error, and has its
\* old body when after_read has returned.
C9_Unbalanced ==
    Returned =>
        \A v \in seen :
            Count(GuideText(b0[v]), OpenCurly) = Count(GuideText(b0[v]), CloseCurly) + 1
                => /\ err \in {"unmatched_brackets", "stack_underflow"}
                   /\ b[v] = b0[v]

\* ------------------------------------------------------------------------
\* C10
\* ------------------------------------------------------------------------
\* check_indentation has run on the guide lines: it returned or it raised.
IndentationChecked == pc = "pass1" \/ (pc = "except" /\ err = "bad_indentation")

\* check_indentation raised at line k or before it.
RaisedBy(k) == pc = "except" /\ err = "bad_indentation" /\ err_line <= k

\* Line k is not blank and is indented by one unit.
OneUnit(k) ==
    /\ NonBlank(guide_lines[k])
    /\ LeadingRun(guide_lines[k], ws_char(indent)) = Abs(indent)

\* C10 as stated: a non-blank line with two more opens than closes before
\* it, indented by one unit, makes check_indentation raise, unless the
\* paren depth there is positive, and then it does not raise for that line.
C10_TwoDeepByOpenCount ==
    IndentationChecked =>
        \A k \in 1..Len(guide_lines) :
            (OneUnit(k) /\ CurliesBefore(k) = 2) =>
                IF ParensBefore(k) > 0 THEN err_line # k ELSE RaisedBy(k)

\* The depth line k has after the '}' it holds.
ProjectedDepth(k) == CurliesBefore(k) - Count(guide_lines[k], CloseCurly)

\* C10, amended: a non-blank line whose depth after its own '}' is two,
\* indented by one unit and met with paren depth 0, makes check_indentation
\* raise; a line met with a paren depth other than 0 never makes it raise.
C10_TwoDeepProjected ==
    IndentationChecked =>
        \A k \in 1..Len(guide_lines) :
            /\ (OneUnit(k) /\ ProjectedDepth(k) = 2 /\ ParensBefore(k) = 0) => RaisedBy(k)
            /\ ParensBefore(k) # 0 => err_line # k

\* check_indentation raised for a line two deep and indented by one unit.
C10_Witness ==
    /\ pc = "except" /\ err = "bad_indentation"
    /\ OneUnit(err_line) /\ ProjectedDepth(err_line) = 2 /\ ParensBefore(err_line) = 0

\* ------------------------------------------------------------------------
\* C11
\* ------------------------------------------------------------------------
\* No pair can be removed: every '}' has its '{' on its own line or stands
\* on a line with a '}' followed by ';'.
NoRemovablePair ==
    \A t \in DOMAIN info :
        t[1] = CloseCurly => (info[t][2] = t[2] \/ semicolon_pat(guide_lines[t[2]]))

\* C11: idempotence.  For a unit without a removable cross-line pair the
\* result of remove_brackets is the real input lines, byte for byte (so
\* that transforming the result again gives the result again).
C11_Idempotent ==
    (Removed /\ NoRemovablePair) => result_lines[1] = lines

\* ------------------------------------------------------------------------
\* C12
\* ------------------------------------------------------------------------
\* C12 as stated: with a zero or negative width the batch fails before any
\* node is processed, and no node is changed.
C12_ConfigurationError ==
    (tab_width <= 0 /\ pc # "start") =>
        /\ pc \in {"except", "done"}
        /\ err # "none"
        /\ \A v \in DOMAIN calls : calls[v] = 0
        /\ b = b0

\* C12, amended: a zero width is replaced by the default of 4 blanks and a
\* negative width selects blanks, its absolute value being the unit; none
\* of them raises an error of its own: the assertion of check_indentation
\* holds and the first node of the batch is processed.
C12_DefaultWidth ==
    pc # "start" =>
        /\ indent = (IF tab_width = 0 THEN -4 ELSE tab_width)
        /\ tab_width <= 0 => (indent < 0 /\ ws_char(indent) = " " /\ indent_n(indent) > 0)
        /\ err # "assertion"
        /\ Returned => calls[order[1]] = 1

\* check_indentation has accepted a node under a width of zero.
C12_Witness == tab_width = 0 /\ pc = "pass1" /\ calls[order[1]] = 1

\* ------------------------------------------------------------------------
\* C13
\* ------------------------------------------------------------------------
\* C13: whatever is raised for a node, after_read catches it (control is in
\* the handler or after_read has returned, nothing propagates), and once it
\* has returned every node with a backup entry is restored to the body it
\* had at the call.
C13_NoEscape ==
    /\ err # "none" => pc \in {"except", "done"}
    /\ (Returned /\ err # "none") => \A v \in DOMAIN backup_d : b[v] = b0[v]

\* ------------------------------------------------------------------------
\* C14
\* ------------------------------------------------------------------------
\* C14: in one after_read call do_remove_brackets is called at most once
\* for a vnode, and exactly once for every vnode of the batch when
\* after_read returns without a failure.
C14_ProcessedOnce ==
    /\ \A v \in DOMAIN calls : calls[v] <= 1
    /\ (Returned /\ err = "none") => \A v \in Range(order) : calls[v] = 1

\* A batch in which a vnode is met twice has been processed without failure.
C14_Witness ==
    Returned /\ err = "none" /\ Len(order) > Cardinality(Range(order))

\* ------------------------------------------------------------------------
\* C15
\* ------------------------------------------------------------------------
\* A validator or a pass of remove_brackets is about to run on the node.
Validating ==
    pc \in {"check_brackets", "check_indentation", "pass1", "pass2", "pass3"}

\* The guide lines have the shape of the real lines: count and lengths.
SameShape ==
    /\ Len(guide_lines) = Len(lines)
    /\ \A k \in 1..Len(lines) : Len(guide_lines[k]) = Len(lines[k])

\* C15: guide lines that differ from the real lines in count or in the
\* length of a line make do_remove_brackets fail before a validator runs,
\* and the batch is rolled back.
C15_GuideContract ==
    /\ Validating => SameShape
    /\ (Returned /\ err = "assertion") => \A v \in Range(order) : b[v] = b0[v]

\* ------------------------------------------------------------------------
\* C16
\* ------------------------------------------------------------------------
\* The result has a blank at the place of bracket tok, or the place was
\* trimmed away with the trailing whitespace of its line.
Elided(tok) ==
    /\ tok[2] <= Len(result_lines[1])
    /\ \/ tok[3] >= Len(result_lines[1][tok[2]])
       \/ result_lines[1][tok[2]][tok[3]] = " "

\* The pair of the '{' tok is on two lines and no '}' followed by ';' is on
\* the line of its '}'.
Eligible(tok) ==
    /\ tok[1] = OpenCurly
    /\ info[tok][2] # tok[2]
    /\ ~semicolon_pat(guide_lines[info[tok][2]])

\* C16: both brackets of every eligible pair are elided in the result, also
\* in chains such as "} else {".
C16_EligibleElided ==
    Removed => \A t \in DOMAIN info : Eligible(t) => (Elided(t) /\ Elided(info[t]))

\* ------------------------------------------------------------------------
\* C17
\* ------------------------------------------------------------------------
\* The result still has bracket tok at its line and column.
Kept(tok) ==
    /\ tok[2] <= Len(result_lines[1])
    /\ tok[3] <= Len(result_lines[1][tok[2]])
    /\ result_lines[1][tok[2]][tok[3]] = tok[1]

\* C17: the result keeps both brackets of a pair or neither of them.
C17_PairWise ==
    Removed => \A t \in DOMAIN info : t[1] = OpenCurly => (Kept(t) <=> Kept(info[t]))

\* ------------------------------------------------------------------------
\* C18
\* ------------------------------------------------------------------------
\* Opens minus closes among the first k brackets of the guide lines, in the
\* order of the scan.
Balance(k) ==
    LET toks == AllCurlies(guide_lines)
    IN Cardinality({j \in 1..k : toks[j][1] = OpenCurly})
       - Cardinality({j \in 1..k : toks[j][1] = CloseCurly})

NumCurlies == Len(AllCurlies(guide_lines))

Underflows == \E k \in 1..NumCurlies : Balance(k) < 0

\* Pass 1 has run on the guide lines of the current node.
AfterPass1 ==
    \/ pc = "pass2"
    \/ pc = "except" /\ err \in {"stack_underflow", "unmatched_brackets"}

\* The state of pass 1 after the first k brackets.
ScanTo(k) ==
    Pass1Loop([stack |-> << >>, info |-> EmptyInfo, level |-> 0, err |-> "none"],
              SubSeq(AllCurlies(guide_lines), 1, k))

\* C18: pass 1 raises 'stack underflow' exactly when some prefix of the
\* brackets has more closes than opens, and then at the first such close;
\* it raises 'unmatched brackets' exactly when no prefix underflows and
\* opens are left over; otherwise it returns.  During the scan the running
\* balance is the depth of the stack, so testing the balance at the end is
\* testing that the stack is empty.
C18_RejectsUnbalanced ==
    AfterPass1 =>
        /\ (err = "stack_underflow") <=> Underflows
        /\ err = "stack_underflow" =>
              LET first == CHOOSE k \in 1..NumCurlies :
                               Balance(k) < 0 /\ \A j \in 1..(k - 1) : Balance(j) >= 0
              IN /\ stack = << >>
                 /\ level = Balance(first - 1)
                 /\ DOMAIN info = {AllCurlies(guide_lines)[j] : j \in 1..(first - 1)}
        /\ (err = "unmatched_brackets") <=> (~Underflows /\ Balance(NumCurlies) > 0)
        /\ (pc = "pass2") <=> (~Underflows /\ Balance(NumCurlies) = 0)
        /\ \A k \in 0..NumCurlies :
              ScanTo(k).err = "none" =>
                  /\ ScanTo(k).level = Balance(k)
                  /\ ScanTo(k).level = Len(ScanTo(k).stack)
        /\ (level # 0) <=> (stack # << >>)

\* Pass 1 has matched one pair and ends with an open left on the stack.
C18_Witness ==
    /\ pc = "except"
    /\ err = "unmatched_brackets"
    /\ stack # << >>
    /\ NumCurlies > Len(stack)

\* ------------------------------------------------------------------------
\* C19
\* ------------------------------------------------------------------------
\* divmod(leading width, unit width) of guide line k.
LwsLevel(k) == LeadingRun(guide_lines[k], ws_char(indent)) \div Abs(indent)

LwsRemainder(k) == LeadingRun(guide_lines[k], ws_char(indent)) % Abs(indent)

\* The main loop of check_indentation got as far as line k.
Reached(k) == err_line = 0 \/ k <= err_line

\* Line k is not blank and breaks the rule of its depth: its projected depth
\* is positive and is not its level, or its leading width has a remainder.
OffLevel(k) ==
    /\ NonBlank(guide_lines[k])
    /\ \/ ProjectedDepth(k) > 0 /\ LwsLevel(k) # ProjectedDepth(k)
       \/ LwsRemainder(k) # 0

\* C19 as stated: a line is exempt (warning only) when the paren depth
\* before it is positive and its leading width has a remainder; every other
\* line that check_indentation reaches makes it raise iff the line is off
\* its level, the counts being the net opens minus closes of the lines
\* before.
C19_ExemptOnlyWithRemainder ==
    IndentationChecked =>
        \A k \in 1..Len(guide_lines) :
            Reached(k) =>
                ((err_line = k) <=>
                    (~(ParensBefore(k) > 0 /\ LwsRemainder(k) # 0) /\ OffLevel(k)))

\* C19, amended: a line that check_indentation reaches makes it raise iff
\* the paren depth before the line is 0 and the line is off its level; a
\* line met with any other paren depth, positive or negative, is never
\* checked (with a remainder it is warned about, without one it is passed
\* over).  The counts are the net opens minus closes of the lines before.
C19_ExemptInsideParens ==
    IndentationChecked =>
        \A k \in 1..Len(guide_lines) :
            Reached(k) =>
                ((err_line = k) <=> (ParensBefore(k) = 0 /\ OffLevel(k)))

\* check_indentation returned although a line inside an open parenthesis,
\* with no remainder, is not at the level of its depth.
C19_Witness ==
    /\ pc = "pass1"
    /\ \E k \in 1..Len(guide_lines) :
          /\ ParensBefore(k) > 0
          /\ LwsRemainder(k) = 0
          /\ OffLevel(k)

\* ------------------------------------------------------------------------
\* C20
\* ------------------------------------------------------------------------
\* Line s from column k on, without its self-contained '{' ... '}' parts:
\* from a '{' that has a '}' after it on the line, everything up to the
\* nearest '}' and the whitespace after that '}' goes.
RECURSIVE ErasedFrom(_, _)
ErasedFrom(s, k) ==
    IF k > Len(s) THEN << >>
    ELSE LET closes == {q \in (k + 1)..Len(s) :
                            /\ s[q] = CloseCurly
                            /\ \A j \in (k + 1)..(q - 1) : s[j] # NL /\ s[j] # CloseCurly}
         IN IF s[k] = OpenCurly /\ closes # {}
            THEN LET q == CHOOSE c \in closes : TRUE
                     e == CHOOSE c \in q..Len(s) :
                              /\ \A j \in (q + 1)..c : IsSpace(s[j])
                              /\ c < Len(s) => ~IsSpace(s[c + 1])
                 IN ErasedFrom(s, e + 1)
            ELSE << s[k] >> \o ErasedFrom(s, k + 1)

Erased(k) == ErasedFrom(guide_lines[k], 1)

\* More than one '{' or more than one '}' remains on line k.
TooMany(k) == Count(Erased(k), OpenCurly) > 1 \/ Count(Erased(k), CloseCurly) > 1

\* What remains of line k starts with '}' and ends with '{', whitespace at
\* both ends aside.
CloseFirstOpenLast(k) ==
    LET r == Erased(k)
        ink == {c \in 1..Len(r) : ~IsSpace(r[c])}
    IN /\ ink # {}
       /\ LET first == CHOOSE c \in ink : \A d \in ink : c <= d
              last == CHOOSE c \in ink : \A d \in ink : d <= c
          IN /\ r[first] = CloseCurly
             /\ r[last] = OpenCurly
             /\ \A j \in (first + 1)..(last - 1) : r[j] # NL

\* One '}' and one '{' remain on line k, the '}' first, and not in the form
\* of a line that starts with '}' and ends with '{'.
Misplaced(k) ==
    LET r == Erased(k)
    IN /\ Count(r, OpenCurly) = 1
       /\ Count(r, CloseCurly) = 1
       /\ \E c, o \in 1..Len(r) : r[c] = CloseCurly /\ r[o] = OpenCurly /\ c < o
       /\ ~CloseFirstOpenLast(k)

Offends(k) == TooMany(k) \/ Misplaced(k)

\* check_brackets has run on the guide lines of the current node.
AfterCheckBrackets ==
    \/ pc = "check_indentation"
    \/ pc = "except" /\ err \in {"too_many_curly_brackets", "invalid_curly_brackets"}

\* C20: check_brackets accepts the guide lines iff no line offends, and
\* otherwise raises the error of the first offending line: 'too many' when
\* more than one '{' or '}' remains after the erasure, 'invalid' when one
\* '}' and one '{' remain in that order and the rest of the line is not
\* "whitespace, '}', anything, '{', whitespace".
C20_BracketRule ==
    AfterCheckBrackets =>
        /\ (pc = "check_indentation") <=> (\A k \in 1..Len(guide_lines) : ~Offends(k))
        /\ pc = "except" =>
              \E k \in 1..Len(guide_lines) :
                 /\ Offends(k)
                 /\ \A j \in 1..(k - 1) : ~Offends(j)
                 /\ err = IF TooMany(k) THEN "too_many_curly_brackets"
                                        ELSE "invalid_curly_brackets"

\* check_brackets accepted a "} ... {" line and raised at a later line with
\* a misplaced pair.
C20_Witness ==
    /\ pc = "except"
    /\ err = "invalid_curly_brackets"
    /\ \E k \in 1..Len(guide_lines) :
          /\ Misplaced(k)
          /\ \E j \in 1..(k - 1) : CloseFirstOpenLast(j) /\ ~Offends(j)

\* ------------------------------------------------------------------------
\* C21
\* ------------------------------------------------------------------------
\* The body of unit v is whitespace from end to end.
BlankUnit(v) == \A k \in 1..Len(b0[v]) : IsSpace(b0[v][k])

\* The guide lines of unit v.
GuideOf(v) == make_guide_lines(splitLines(b0[v]))

\* What the stages, taken in their order, make of unit v on its own:
\* "skipped", the error of the first stage that fails, or "removed".
Outcome(v) ==
    IF BlankUnit(v) THEN "skipped"
    ELSE IF check_brackets(GuideOf(v)) # "none" THEN check_brackets(GuideOf(v))
    ELSE IF check_indentation(GuideOf(v), indent) # 0 THEN "bad_indentation"
    ELSE IF Pass1(GuideOf(v)).err # "none" THEN Pass1(GuideOf(v)).err
    ELSE "removed"

Fails(v) == Outcome(v) \notin {"skipped", "removed"}

\* Unit v was handed to do_remove_brackets and got through it.
Passed(v) ==
    /\ calls[v] = 1
    /\ (result_lines[v] # << >>) <=> (Outcome(v) = "removed")

\* No stage has run on unit v.
Untouched(v) == calls[v] = 0 /\ result_lines[v] = << >>

\* The position of the traversal where vnode v is met first.
FirstAt(v) == CHOOSE k \in 1..Len(order) : order[k] = v /\ \A j \in 1..(k - 1) : order[j] # v

\* C21: the stages of a unit run in the order brackets, indentation,
\* matching, removal, each only when the ones before it succeeded, so a
\* unit that breaks the bracket rule and the indentation rule fails with
\* the bracket error; after a failure no stage runs, and the units that
\* come later in the traversal are neither validated nor transformed; a
\* blank unit is skipped and the batch goes on.
C21_StopAtFirstFailure ==
    pc # "start" =>
        /\ pc = "check_indentation" => check_brackets(GuideOf(p2)) = "none"
        /\ pc = "pass1" =>
              /\ check_brackets(GuideOf(p2)) = "none"
              /\ check_indentation(GuideOf(p2), indent) = 0
        /\ pc \in {"pass2", "pass3"} => Outcome(p2) = "removed"
        /\ \A v \in Range(order) : result_lines[v] # << >> => Outcome(v) = "removed"
        /\ err # "none" =>
              /\ pc \in {"except", "done"}
              /\ Fails(p2)
              /\ err = Outcome(p2)
              /\ \A v \in Range(order) :
                    /\ FirstAt(v) < FirstAt(p2) => (Passed(v) /\ ~Fails(v))
                    /\ FirstAt(v) > FirstAt(p2) => Untouched(v)
        /\ (Returned /\ err = "none") =>
              \A v \in Range(order) : Passed(v) /\ ~Fails(v)

\* A batch failed with the bracket error at a unit that breaks both rules,
\* after it had skipped a unit of whitespace only.
C21_Witness ==
    /\ Returned
    /\ err = "too_many_curly_brackets"
    /\ check_indentation(GuideOf(p2), indent) # 0
    /\ \E v \in Range(order) :
          FirstAt(v) < FirstAt(p2) /\ b0[v] # << >> /\ BlankUnit(v) /\ calls[v] = 1

\* ------------------------------------------------------------------------
\* C22
\* ------------------------------------------------------------------------
\* The line gen_lines is at.
OtlLine == IF otl_i \in 1..Len(otl_lines) THEN otl_lines[otl_i] ELSE << >>

BlankLine(line) == \A k \in 1..Len(line) : IsSpace(line[k])

\* The line starts with ': ' at column 0.
BodyLine(line) == ~BlankLine(line) /\ Len(line) >= 2 /\ line[1] = ":" /\ line[2] = " "

\* The number of characters ch that s has from column c on, before any other.
RunAt(s, c, ch) ==
    CHOOSE n \in 0..Len(s) :
        /\ \A j \in c..(c + n - 1) : j <= Len(s) /\ s[j] = ch
        /\ (c + n <= Len(s)) => s[c + n] # ch

\* The line from column c on, without its line end.
TextFrom(s, c) ==
    IF s # << >> /\ s[Len(s)] = NL THEN Slice(s, c, Len(s) - 1) ELSE Slice(s, c, Len(s))

\* The node created last.
Newest == CHOOSE n \in DOMAIN otl_h : \A m \in DOMAIN otl_h : m <= n

\* The step leaves the outline and the collected lines as they are.
BlankStep == UNCHANGED << parents, lines_dict, otl_h, otl_children, otl_b >>

\* The step appends the text of the line to the lines of the newest node.
BodyStep ==
    /\ lines_dict' = [lines_dict EXCEPT ![Newest] = Append(@, TextFrom(OtlLine, 3) \o << NL >>)]
    /\ UNCHANGED << parents, otl_h, otl_children >>

\* The step cuts the stack back to lvl entries and pushes what it creates:
\* every node it pushes is new, has no lines and is the last child of the
\* entry under it; the one on top is the newest node and has headline hl.
NodeStep(lvl, hl) ==
    LET keep == IF lvl < Len(parents) THEN lvl ELSE Len(parents)
        top == parents'[Len(parents')]
    IN /\ Len(parents') > keep
       /\ SubSeq(parents', 1, keep) = SubSeq(parents, 1, keep)
       /\ \A k \in (keep + 1)..Len(parents') :
             /\ parents'[k] \notin DOMAIN otl_h
             /\ otl_children'[parents'[k - 1]] # << >>
             /\ otl_children'[parents'[k - 1]][Len(otl_children'[parents'[k - 1]])] = parents'[k]
             /\ lines_dict'[parents'[k]] = << >>
       /\ otl_h'[top] = hl
       /\ \A m \in DOMAIN otl_h' : m <= top
       /\ DOMAIN otl_h' \ DOMAIN otl_h = {parents'[k] : k \in (keep + 1)..Len(parents')}
       /\ \A m \in DOMAIN otl_h :
             /\ otl_h'[m] = otl_h[m]
             /\ lines_dict'[m] = lines_dict[m]
             /\ \A k \in 1..Len(otl_children[m]) : otl_children'[m][k] = otl_children[m][k]

\* The step gives every node the concatenation of its lines as body, the
\* root's followed by the two directives.
FinishStep ==
    /\ otl_pc' = "done"
    /\ UNCHANGED << parents, otl_h, otl_children >>
    /\ \A n \in DOMAIN otl_h :
          otl_b'[n] = joinLines(lines_dict[n])
                      \o (IF n = 0 THEN LanguageDirective \o TabwidthDirective(otl_tab_width)
                                   ELSE << >>)

\* C22 as stated: a blank line changes nothing; a line that starts with
\* ': ' is appended to the lines of the newest node; any other line is a
\* node line whose level is 1 + its number of leading tabs and whose
\* headline is the rest of the line; at the end every body is the
\* concatenation of the node's lines, the root's with the directives.
C22_LeadingTabs ==
    [][ /\ (otl_pc = "scan" /\ otl_i <= Len(otl_lines)) =>
              IF BlankLine(OtlLine) THEN BlankStep
              ELSE IF BodyLine(OtlLine) THEN BodyStep
              ELSE NodeStep(1 + RunAt(OtlLine, 1, "\t"),
                            TextFrom(OtlLine, 1 + RunAt(OtlLine, 1, "\t")))
        /\ (otl_pc = "scan" /\ otl_i > Len(otl_lines)) => FinishStep ]_vars

\* The blanks a line starts with.
LeadingBlanks(line) == RunAt(line, 1, " ")

\* C22, amended: as C22, but the blanks a node line starts with are passed
\* over: its level is 1 + the number of tabs that follow them, and its
\* headline is what follows these blanks and tabs.
C22_TabsAfterBlanks ==
    [][ /\ (otl_pc = "scan" /\ otl_i <= Len(otl_lines)) =>
              IF BlankLine(OtlLine) THEN BlankStep
              ELSE IF BodyLine(OtlLine) THEN BodyStep
              ELSE NodeStep(1 + RunAt(OtlLine, 1 + LeadingBlanks(OtlLine), "\t"),
                            TextFrom(OtlLine, 1 + LeadingBlanks(OtlLine)
                                              + RunAt(OtlLine, 1 + LeadingBlanks(OtlLine), "\t")))
        /\ (otl_pc = "scan" /\ otl_i > Len(otl_lines)) => FinishStep ]_vars

\* gen_lines has made 'w', from a line of a blank, a tab and 'w', a child of
\* 'x' and has given it two body lines in the order of the file.
C22_Witness ==
    /\ otl_pc = "done"
    /\ \E n, m \in DOMAIN otl_h :
          /\ otl_h[m] = << "x" >>
          /\ otl_h[n] = << "w" >>
          /\ otl_children[m] = << n >>
          /\ otl_b[n] = << "a", "\n", "b", "\n" >>

====
